---- MODULE Spec2Model ----
(***************************************************************************)
(* Dataflow / execution core of pathomx (src/pathomx/ui.py, GenericApp).   *)
(* Each tool owns a run flag pair (_is_job_active, _queued_start), a       *)
(* configuration, a data manager with input bindings and published         *)
(* outputs, and a view manager holding the rendered output mapping.        *)
(* Jobs handed to notebook_queue.add_job stay outstanding until their      *)
(* result is delivered to _worker_result_callback on the control thread.   *)
(***************************************************************************)
EXTENDS Integers, Sequences, FiniteSets, TLC

\* ------------------------------------------------------------------ bounds
MaxVal == 2      \* dataset versions a computation body may produce: 1..MaxVal
MaxCfg == 1      \* values of a numeric configuration key: 0..MaxCfg
MaxReq == 2      \* saturation of the count of requests coalesced during a run
MaxAxes == 1     \* axes of a figure a computation body draws: 0..MaxAxes
MaxImages == 1   \* images on one axes: 0..MaxImages
MaxTools == 3    \* tools created in one session
MaxAuto == 2     \* style rules the kernel has assigned automatically
MaxNew == 2      \* style rules added with New in the style manager
MaxPrint == 2    \* print sizes of the export dialog, in steps of its spin box: 1..MaxPrint
DotsPerStep == 3 \* the resolution set in the export dialog: pixels per print step

\* --------------------------------------------------------------- constants
RECALCULATE_ALL == "RECALCULATE_ALL"
RECALCULATE_VIEW == "RECALCULATE_VIEW"

\* Python None, as a binding / io key and as a dataset value
None == <<>>
NoneVal == [type |-> "NoneType", ver |-> 0]

\* value kinds a computation body publishes, and the datasets it can produce
Types == {"DataFrame"}
Values == [type : Types, ver : 1..MaxVal]

\* configuration keys (a numeric setting that changes the computation, a
\* checkbox that changes only the rendering), their values and the update
\* signal each key is registered with
ConfigKeys == {"k_all", "k_view"}
ConfigValues(k) == IF k = "k_all" THEN 0..MaxCfg ELSE {0, 1}
eventhooks == [k \in ConfigKeys |-> IF k = "k_all" THEN RECALCULATE_ALL ELSE RECALCULATE_VIEW]

VARIABLES
    current_tools,            \* globals.current_tools: live tools in creation order
    is_job_active,            \* tool -> self._is_job_active
    queued_start,             \* tool -> self._queued_start
    pause_analysis_flag,      \* tool -> self._pause_analysis_flag
    latest_generator_result,  \* tool -> self._latest_generator_result: None or <<mapping>>
    config,                   \* tool -> self.config.as_dict()
    consumer_defs,            \* tool -> ordered input port names (data.consumer_defs)
    data_i,                   \* tool -> input port -> None or <<producer, output>>
    data_o,                   \* tool -> output port -> published dataset or NoneVal
    views_data,               \* tool -> self.views.data
    notebook_queue,           \* tool -> jobs handed to add_job, result not yet delivered
    emitted,                  \* status / progress signals emitted by the last handler
    last_op,                  \* the handler that ran last, and the tool it ran on
    notified,                 \* source_updated notifications raised by the last handler
    unserved,                 \* tool -> a generate() call has not been followed by a dispatch
    stale,                    \* tool -> a bound input was republished after the last dispatch
    nreq,                     \* tool -> generate() calls made while Running since the last
                              \*         dispatch by a trigger (saturates at MaxReq)
    sfq_runs,                 \* tool -> dispatches by start_from_queue since the last trigger
    kernel_vars,              \* the kernel's namespace (vars): name -> value
    kernel_io,                \* vars['_io']
    exclude_input_vars,       \* vars['_pathomx_exclude_input_vars']
    pickle_in,                \* the file at _pathomx_pickle_in of the tool kernel_pc.tool
    pickle_out,               \* the file at _pathomx_pickle_out of that tool
    kernel_pc,                \* where the kernel is in the run of a job
    kernel_exc,               \* the exception the last kernel call raised, or "none"
    tool_id,                  \* tool -> id(self), the address of the tool object
    current_tools_by_id,      \* globals.current_tools_by_id: id -> tool
    init_stage,               \* tool -> how far the staged initialisation has come
    is_autoconsume_success,   \* tool -> self._is_autoconsume_success
    styles,                   \* the global StylesManager: matchdefs, automatchdefs
    styles_tw,                \* the items of the style manager's tree, top to bottom
    styles_exc,               \* the exception the last style-manager handler raised
    export_dialog,            \* the ExportImageDialog: its spin boxes, _w, _h, _updating
    export_stack              \* the handlers of the dialog that are running, outermost first

tool_vars == <<current_tools, is_job_active, queued_start, pause_analysis_flag,
               latest_generator_result, config, consumer_defs, data_i, data_o, views_data,
               notebook_queue, emitted, last_op, notified, unserved, stale, nreq,
               sfq_runs>>

kernel_state == <<kernel_vars, kernel_io, exclude_input_vars, pickle_in, pickle_out,
                  kernel_pc, kernel_exc>>

init_state == <<tool_id, current_tools_by_id, init_stage, is_autoconsume_success>>

style_state == <<styles, styles_tw, styles_exc>>

export_state == <<export_dialog, export_stack>>

dialog_state == <<style_state, export_state>>

\* everything on the control thread
ui_vars == <<tool_vars, init_state, dialog_state>>

vars == <<ui_vars, kernel_state>>

\* ---------------------------------------------------------------- helpers
Range(f) == {f[x] : x \in DOMAIN f}
Min(a, b) == IF a < b THEN a ELSE b
Tools == Range(current_tools)

\* all orders in which the keys of a dict may be iterated
Perms(S) == {q \in [1..Cardinality(S) -> S] : \A i, j \in 1..Cardinality(S) : i # j => q[i] # q[j]}

\* ------------------------------------------------------ staged start-up
\* __init__ leaves a timer for init_auto_consume_data ("constructed"), which
\* connects the signals and leaves one for init_notebook ("connected"), which
\* loads the notebook and, after a successful auto-consume, leaves one for
\* autogenerate ("loaded"); a tool with no timer pending is "ready"
signals_connected(t) == init_stage[t] # "constructed"
notebook_loaded(t) == init_stage[t] \in {"loaded", "ready"}

\* ------------------------------------------------- the state a handler sees
\* Handlers call each other synchronously on the control thread (a put()
\* notifies consumers, whose autogenerate() runs before put() returns), so
\* each handler is an operator from the state record to the state record.
State ==
    [active |-> is_job_active, queued |-> queued_start, paused |-> pause_analysis_flag,
     latest |-> latest_generator_result, cfg |-> config, i |-> data_i, o |-> data_o,
     views |-> views_data, queue |-> notebook_queue, emitted |-> <<>>,
     notified |-> {}, unserved |-> unserved, stale |-> stale, nreq |-> nreq,
     sfq |-> sfq_runs]

CommitFields(s, op) ==
    /\ is_job_active' = s.active
    /\ queued_start' = s.queued
    /\ pause_analysis_flag' = s.paused
    /\ latest_generator_result' = s.latest
    /\ config' = s.cfg
    /\ data_i' = s.i
    /\ data_o' = s.o
    /\ views_data' = s.views
    /\ notebook_queue' = s.queue
    /\ emitted' = s.emitted
    /\ notified' = s.notified
    /\ unserved' = s.unserved
    /\ stale' = s.stale
    /\ nreq' = s.nreq
    /\ sfq_runs' = s.sfq
    /\ last_op' = op

\* a handler of a tool that is fully set up: no tool is created or deleted
Commit(s, op) ==
    /\ CommitFields(s, op)
    /\ UNCHANGED <<current_tools, consumer_defs, kernel_state, init_state, dialog_state>>

\* self.status.emit(value), self.progress.emit(value)
emit(s, t, signal, value) ==
    [s EXCEPT !.emitted = Append(@, [tool |-> t, signal |-> signal, value |-> value])]

\* ------------------------------------------------------------- generate()
\* io['input'][i] = "_%s_%s" % (mi, id(mo.v)) for a bound input, None otherwise
io_input(s, t) ==
    [p \in DOMAIN s.i[t] |->
        IF s.i[t][p] # None THEN <<s.i[t][p][2], tool_id[s.i[t][p][1]]>> ELSE None]

\* io['output'][o] = "_%s_%s" % (o, id(self))
io_output(s, t) == [p \in DOMAIN s.o[t] |-> <<p, tool_id[t]>>]

\* a variable set built from the configuration the tool was constructed with
mut_varsi_default_config(s, t) ==
    [io |-> [input |-> io_input(s, t), output |-> io_output(s, t)],
     config |-> [k \in DOMAIN s.cfg[t] |-> 0]]

\* the variable set handed to the worker with the job: _io and config. The
\* entries that no handler of the tool changes (rcParams, styles, the notebook
\* path and the two pickle paths) are left out.
varsi(s, t) ==
    [io |-> [input |-> io_input(s, t), output |-> io_output(s, t)],
     config |-> s.cfg[t]]

\* notebook_queue.add_job(self.code, varsi, ..., result_callback=...), after
\* status.emit('active'); the job stays outstanding until its result is delivered.
\* A dispatch serves every request made so far (unserved, stale, nreq, sfq are
\* bookkeeping about the run, not fields of the tool).
add_job(s, t) ==
    [emit(emit(s, t, "status", "active"), t, "progress", "0")
       EXCEPT !.queue[t] = Append(@, varsi(s, t)),
              !.unserved[t] = FALSE,
              !.stale[t] = FALSE,
              !.nreq[t] = 0,
              !.sfq[t] = 0]

\* generate() without the _is_job_active guard
mut_generate_unguarded(s, t) ==
    add_job([s EXCEPT !.active[t] = TRUE, !.queued[t] = FALSE], t)

\* generate() that leaves _queued_start set when it dispatches
mut_generate_keeps_queued(s, t) ==
    IF s.active[t] = FALSE
    THEN add_job([s EXCEPT !.active[t] = TRUE], t)
    ELSE [s EXCEPT !.queued[t] = TRUE,
                   !.unserved[t] = TRUE,
                   !.nreq[t] = Min(@ + 1, MaxReq),
                   !.sfq[t] = 0]

\* generate() that replaces the job in flight by one for the current state
mut_generate_restarts(s, t) ==
    IF s.active[t] = FALSE
    THEN add_job([s EXCEPT !.active[t] = TRUE, !.queued[t] = FALSE], t)
    ELSE [s EXCEPT !.queued[t] = TRUE,
                   !.queue[t] = <<varsi(s, t)>>,
                   !.unserved[t] = TRUE,
                   !.nreq[t] = Min(@ + 1, MaxReq),
                   !.sfq[t] = 0]

\* generate() that hands the job over whether or not a notebook is loaded
mut_generate_without_notebook(s, t) ==
    IF s.active[t] = FALSE
    THEN add_job([s EXCEPT !.active[t] = TRUE, !.queued[t] = FALSE], t)
    ELSE [s EXCEPT !.queued[t] = TRUE,
                   !.unserved[t] = TRUE,
                   !.nreq[t] = Min(@ + 1, MaxReq),
                   !.sfq[t] = 0]

\* Before init_notebook has run the tool has no notebook_path attribute:
\* `varsi['_pathomx_notebook_path'] = self.notebook_path` raises
\* AttributeError after the flags are set and 'active' is emitted, and
\* add_job is not reached.
generate(s, t) ==
    IF s.active[t] = FALSE
    THEN IF notebook_loaded(t)
         THEN add_job([s EXCEPT !.active[t] = TRUE, !.queued[t] = FALSE], t)
         ELSE [emit(emit(s, t, "status", "active"), t, "progress", "0")
                 EXCEPT !.active[t] = TRUE, !.queued[t] = FALSE, !.unserved[t] = TRUE]
    ELSE [s EXCEPT !.queued[t] = TRUE,
                   !.unserved[t] = TRUE,
                   !.nreq[t] = Min(@ + 1, MaxReq),
                   !.sfq[t] = 0]

\* autogenerate() that ignores a trigger arriving while a job is active
mut_autogenerate_skips_running(s, t) ==
    IF s.paused[t]
    THEN emit(s, t, "status", "paused")
    ELSE IF s.active[t] THEN s ELSE generate(s, t)

\* autogenerate() without the pause check
mut_autogenerate_ignores_pause(s, t) == generate(s, t)

autogenerate(s, t) ==
    IF s.paused[t]
    THEN emit(s, t, "status", "paused")
    ELSE generate(s, t)

\* start_from_queue() that goes through autogenerate(), and so through the
\* pause check
mut_start_from_queue_pausable(s, t) ==
    IF s.queued[t] /\ s.active[t] = FALSE
    THEN [autogenerate(s, t) EXCEPT !.sfq[t] = Min(s.sfq[t] + 1, 2), !.nreq[t] = s.nreq[t]]
    ELSE s

\* the run it dispatches is counted as one made from the queue, for the
\* requests that were coalesced before it
start_from_queue(s, t) ==
    IF s.queued[t] /\ s.active[t] = FALSE
    THEN [generate(s, t) EXCEPT !.sfq[t] = Min(s.sfq[t] + 1, 2), !.nreq[t] = s.nreq[t]]
    ELSE s

\* ------------------------------------------------------------ data manager
\* the input ports <<consumer, port>> bound to output o of tool t
Watchers(s, t, o) ==
    {cp \in UNION {{<<c, p>> : p \in DOMAIN s.i[c]} : c \in DOMAIN s.i} :
        s.i[cp[1]][cp[2]] = <<t, o>>}

\* source_updated reaches the consumer's autogenerate (connected in
\* init_auto_consume_data); the notification records what the consumer can
\* see of the producer's outputs at that moment
source_updated(s, c, t, o) ==
    LET s1 == [s EXCEPT !.stale[c] = TRUE,
                        !.notified = @ \cup {[to |-> c, from |-> t, port |-> o,
                                              seen |-> s.o[t]]}]
    IN IF signals_connected(c) THEN autogenerate(s1, c) ELSE s1

RECURSIVE NotifyAll(_, _, _, _)
NotifyAll(s, t, o, W) ==
    IF W = {} THEN s
    ELSE LET cp == CHOOSE x \in W : TRUE
         IN NotifyAll(source_updated(s, cp[1], t, o), t, o, W \ {cp})

\* data.put(o, value): replace the published dataset, notify every bound input
put(s, t, o, v) ==
    LET s1 == [s EXCEPT !.o[t][o] = v]
    IN NotifyAll(s1, t, o, Watchers(s1, t, o))

\* -------------------------------------------------------- result handling
\* generated(**kwargs): for o in list(self.data.o.keys()): if o in kwargs: put
RECURSIVE generated(_, _, _, _)
generated(s, t, kwargs, order) ==
    IF order = <<>> THEN s
    ELSE LET o == Head(order)
             s1 == IF o \in DOMAIN kwargs THEN put(s, t, o, kwargs[o]) ELSE s
         IN generated(s1, t, kwargs, Tail(order))

\* prerender(**kwargs): the tagged payload of every value of a rendered kind
PrerenderTag(ty) ==
    CASE ty = "Figure" -> "fig"
      [] ty = "Svg" -> "svg"
      [] ty = "Html" -> "html"
      [] ty = "DataFrame" -> "data"
      [] OTHER -> "none"

prerender(kwargs) ==
    [k \in {n \in DOMAIN kwargs : PrerenderTag(kwargs[n].type) # "none"} |->
        [tag |-> PrerenderTag(kwargs[k].type), value |-> kwargs[k]]]

autoprerender(s, t, kwargs_dict) == [s EXCEPT !.views[t] = prerender(kwargs_dict)]

worker_cleanup(s, t, varso, order) ==
    LET s1 == generated(s, t, varso, order)
        s2 == autoprerender(s1, t, varso)
    IN [s2 EXCEPT !.active[t] = FALSE]

\* a callback that hands on whatever the failed run exported
mut_callback_varso_any(result) == result.varso

\* the mapping _worker_result_callback hands to worker_cleanup
callback_varso(result) == IF result.status = 0 THEN result.varso ELSE <<>>

callback_status(result) == IF result.status = 0 THEN "done" ELSE "error"

\* a callback that runs the tool again after a failed run
mut_callback_retries_failure(s, t, result, order) ==
    LET s1 == worker_cleanup(emit(emit(s, t, "progress", "1"), t, "status",
                                  callback_status(result)),
                             t, callback_varso(result), order)
    IN IF result.status = 0 THEN s1 ELSE generate(s1, t)

worker_result_callback(s, t, result, order) ==
    worker_cleanup(emit(emit(s, t, "progress", "1"), t, "status", callback_status(result)),
                   t, callback_varso(result), order)

\* ------------------------------------------------------------- autoconfig
autoconfig(s, t, signal) ==
    IF signal = RECALCULATE_ALL \/ s.latest[t] = None
    THEN autogenerate(s, t)
    ELSE IF signal = RECALCULATE_VIEW
         THEN autoprerender(s, t, s.latest[t][1])
         ELSE s

\* ================================================= the kernel (__init__.py)
\* type(v) in MAGIC_TYPES compares exact types; np.array is a function and is
\* the type of no value
MAGIC_TYPES ==
    {"ndarray", "Series", "DataFrame", "Figure", "AxesSubplot", "StylesManager",
     "Svg", "Html", "SVG"}

\* a variable name; "_%s_%s" % (port, id) is the private name KeyName(<<port, id>>)
Name(base) == [private |-> FALSE, base |-> base, id |-> 0]
PrivateName(base) == [private |-> TRUE, base |-> base, id |-> 0]
KeyName(key) == [private |-> TRUE, base |-> key[1], id |-> key[2]]
\* k.startswith('_')
startswith_underscore(k) == k.private

\* values of the namespace: a type, a content version and, for figures, the
\* render caches (_cachedRenderer, _axstack with each axes' _cachedRenderer and
\* the _imcache of its images)
Obj(type, ver) == [type |-> type, ver |-> ver, cachedRenderer |-> "None", axstack |-> <<>>]
PyNone == Obj("NoneType", 0)
\* a figure that has been drawn: a axes with i images each, every cache filled
DrawnFigure(a, i) ==
    [type |-> "Figure", ver |-> 1, cachedRenderer |-> "cached",
     axstack |-> [n \in 1..a |-> [cachedRenderer |-> "cached",
                                  images |-> [m \in 1..i |-> "cached"]]]]

\* a dict as the sequence of its items, in one iteration order
Items(d) ==
    LET RECURSIVE seq(_)
        seq(S) == IF S = {} THEN <<>>
                  ELSE LET k == CHOOSE x \in S : TRUE IN <<<<k, d[k]>>>> \o seq(S \ {k})
    IN seq(DOMAIN d)

\* pickle.dump(d, f, -1): the stream holds the items of the dict one after another
pickle_dump(d) == Items(d)

\* pickle.load(f): rebuild the dict from the items of the stream
RECURSIVE pickle_load(_)
pickle_load(items) ==
    IF items = <<>> THEN <<>>
    ELSE LET last == items[Len(items)]
         IN (last[1] :> last[2]) @@ pickle_load(SubSeq(items, 1, Len(items) - 1))

\* a file: missing, a complete pickle stream (with the _io item kept apart), or
\* a stream that does not load (empty or cut short)
NoIO == [input |-> <<>>, output |-> <<>>]
MissingFile == [state |-> "missing", io |-> NoIO, items |-> <<>>]
PickleFile(io, items) == [state |-> "ok", io |-> io, items |-> items]
CorruptFile(items) == [state |-> "corrupt", io |-> NoIO, items |-> items]

\* the variables generate() puts in varsi beside _io, as the kernel sees them
pickled_varsi(job) ==
    (Name("config") :> Obj("dict", 0)) @@ (Name("rcParams") :> Obj("dict", 0))
    @@ (Name("styles") :> Obj("StylesManager", 1))
    @@ (PrivateName("pathomx_notebook_path") :> Obj("str", 0))
    @@ (PrivateName("pathomx_pickle_in") :> Obj("str", 0))
    @@ (PrivateName("pathomx_pickle_out") :> Obj("str", 0))

\* ------------------------------------------------- pathomx_notebook_start
keep_input_vars == {Name("styles")}

\* a wipe that spares the names of _keep_input_vars
mut_wipe_keeps_styles(vars_) ==
    [k \in {n \in DOMAIN vars_ : ~(vars_[n].type \in MAGIC_TYPES /\ ~startswith_underscore(n))
                                      \/ n \in keep_input_vars} |-> vars_[k]]

\* for k in list(vars.keys()): if type(vars[k]) in MAGIC_TYPES and not
\* k.startswith('_'): del vars[k]
wipe(vars_) ==
    [k \in {n \in DOMAIN vars_ : ~(vars_[n].type \in MAGIC_TYPES /\ ~startswith_underscore(n))}
        |-> vars_[k]]

\* aliasing that binds a port only when its key is in the namespace
RECURSIVE mut_alias_inputs_no_else(_, _, _)
mut_alias_inputs_no_else(vars_, input, order) ==
    IF order = <<>> THEN vars_
    ELSE LET k == Head(order)
             v == input[k]
         IN IF v # None /\ KeyName(v) \in DOMAIN vars_
            THEN mut_alias_inputs_no_else((Name(k) :> vars_[KeyName(v)]) @@ vars_, input,
                                          Tail(order))
            ELSE mut_alias_inputs_no_else(vars_, input, Tail(order))

\* for k, v in vars['_io']['input'].items(): vars[k] = vars[v] if v in vars else None
RECURSIVE alias_inputs(_, _, _)
alias_inputs(vars_, input, order) ==
    IF order = <<>> THEN vars_
    ELSE LET k == Head(order)
             v == input[k]
             value == IF v # None /\ KeyName(v) \in DOMAIN vars_
                      THEN vars_[KeyName(v)] ELSE PyNone
         IN alias_inputs((Name(k) :> value) @@ vars_, input, Tail(order))

\* the namespace, _io, the exclusion list and the exception after the call
pathomx_notebook_start(fn, vars_, io, exclude, order) ==
    LET wiped == wipe(vars_)
    IN IF fn.state = "missing"
       THEN [vars |-> wiped, io |-> io, exclude |-> exclude, exc |-> "IOError"]
       ELSE IF fn.state = "corrupt"
       THEN [vars |-> wiped, io |-> io, exclude |-> exclude, exc |-> "UnpicklingError"]
       ELSE LET ivars == pickle_load(fn.items)
                loaded == (PrivateName("pathomx_tempdir") :> Obj("str", 0)) @@ ivars @@ wiped
            IN [vars |-> alias_inputs(loaded, fn.io.input, order),
                io |-> fn.io,
                exclude |-> (DOMAIN ivars \cup {PrivateName("io")}) \ keep_input_vars,
                exc |-> "none"]

\* -------------------------------------------------- pathomx_notebook_stop
\* a handler that clears the figure's own renderer only
mut_prepickle_skips_axes(v) == [v EXCEPT !.cachedRenderer = "None"]

figure_prepickle_handler(v) ==
    [v EXCEPT !.cachedRenderer = "None",
              !.axstack = [a \in DOMAIN @ |->
                              [cachedRenderer |-> "None",
                               images |-> [n \in DOMAIN @[a].images |-> "None"]]]]

\* what the handler leaves of an object that may or may not be a figure
figure_prepickle_handler_or_same(v) ==
    IF v.type = "Figure" THEN figure_prepickle_handler(v) ELSE v

\* for k, v in vars['_io']['output'].items(): vars[v] = vars[k] if k in vars else None
RECURSIVE alias_outputs(_, _, _)
alias_outputs(vars_, output, order) ==
    IF order = <<>> THEN vars_
    ELSE LET k == Head(order)
             value == IF Name(k) \in DOMAIN vars_ THEN vars_[Name(k)] ELSE PyNone
         IN alias_outputs((KeyName(output[k]) :> value) @@ vars_, output, Tail(order))

\* a filter that lets private names through
mut_is_exported_ignores_private(vars_, exclude, k) ==
    k \notin exclude /\ vars_[k].type \in MAGIC_TYPES

\* not k.startswith('_') and not k in vars['_pathomx_exclude_input_vars'] and
\* type(v) in MAGIC_TYPES
is_exported(vars_, exclude, k) ==
    ~startswith_underscore(k) /\ k \notin exclude /\ vars_[k].type \in MAGIC_TYPES

\* a loop that passes over figures instead of stripping them
mut_collect_ovars_skips_figures(vars_, exclude) ==
    [k \in {n \in DOMAIN vars_ : is_exported(vars_, exclude, n) /\ vars_[n].type # "Figure"}
        |-> vars_[k]]

\* ovars as the loop over vars.items() builds it
collect_ovars(vars_, exclude) ==
    [k \in {n \in DOMAIN vars_ : is_exported(vars_, exclude, n)} |->
        IF vars_[k].type = "Figure" THEN figure_prepickle_handler(vars_[k]) ELSE vars_[k]]

\* the namespace after the call (the handler strips a figure in place, so the
\* output key bound to the same object is stripped with it) and the file:
\* open(fn, 'wb') empties it, pickle.dump writes the items and then the end of
\* the stream. written counts what reached the file: Len(stream) + 1 when the
\* call returned, less when the process died before.
pathomx_notebook_stop(vars_, io, exclude, order, written) ==
    LET aliased == alias_outputs(vars_, io.output, order)
        ovars == collect_ovars(aliased, exclude)
        stripped == [k \in DOMAIN aliased |->
                        IF k \in DOMAIN ovars THEN ovars[k]
                        ELSE IF \E o \in DOMAIN io.output :
                                    k = KeyName(io.output[o]) /\ Name(o) \in DOMAIN ovars
                             THEN figure_prepickle_handler_or_same(aliased[k])
                             ELSE aliased[k]]
        stream == pickle_dump(ovars)
    IN [vars |-> stripped,
        ovars |-> ovars,
        file |-> IF written = Len(stream) + 1 THEN PickleFile(NoIO, stream)
                 ELSE CorruptFile(SubSeq(stream, 1, written)),
        returned |-> written = Len(stream) + 1]

\* ---------------------------------------------------------------- actions
Op(name, t) == [op |-> name, tool |-> t]

\* the Calculate toolbar action
OnRecalculate(t) ==
    /\ t \in Tools
    /\ Commit(generate(State, t), Op("onRecalculate", t))

\* start_from_queue() called on a tool
StartFromQueue(t) ==
    /\ t \in Tools
    /\ Commit(start_from_queue(State, t), Op("start_from_queue", t))

\* config.set(k, v) changes a value and emits updated with the key's signal
ConfigSet(t, k, v) ==
    /\ t \in Tools
    /\ k \in DOMAIN config[t]
    /\ v # config[t][k]
    /\ IF signals_connected(t)
       THEN Commit(autoconfig([State EXCEPT !.cfg[t][k] = v], t, eventhooks[k]),
                   Op("autoconfig", t))
       ELSE Commit([State EXCEPT !.cfg[t][k] = v], Op("config_set", t))

\* what a finished job can hand back: status 0 (Success) or -1 (Failure), and
\* the variables the run exported under the names of the tool's output ports
Results(t) ==
    [status : {0, 0 - 1},
     varso : UNION {[S -> Values] : S \in SUBSET (DOMAIN data_o[t])}]

\* the queue delivers the result of the tool's outstanding job
WorkerResult(t, result, order) ==
    /\ t \in Tools
    /\ notebook_queue[t] # <<>>
    /\ Commit(worker_result_callback([State EXCEPT !.queue[t] = Tail(@)], t, result, order),
              Op("worker_result", t))

\* the pause toggle of the data toolbar
OnAutoAnalysisToggle(t, checked) ==
    /\ t \in Tools
    /\ checked # pause_analysis_flag[t]
    /\ Commit([State EXCEPT !.paused[t] = checked], Op("onAutoAnalysisToggle", t))

\* ---------------------------------------------------- a job in the kernel
\* the runner writes the job's variables to the tool's _pathomx_pickle_in, or
\* the file ends up unreadable (cut short, or removed with the temp directory)
RunnerWritesSnapshot(t, fault) ==
    /\ t \in Tools
    /\ kernel_pc.pc = "idle"
    /\ kernel_pc.tool = t
    /\ LET job == varsi(State, t)
       IN pickle_in' =
              CASE fault = "ok" -> PickleFile(job.io, pickle_dump(pickled_varsi(job)))
                [] fault = "corrupt" -> CorruptFile(<<>>)
                [] OTHER -> MissingFile
    /\ kernel_pc' = [kernel_pc EXCEPT !.pc = "ready"]
    /\ UNCHANGED <<ui_vars, kernel_vars, kernel_io, exclude_input_vars, pickle_out,
                   kernel_exc>>

\* pathomx_notebook_start(_pathomx_pickle_in, globals()); an exception ends
\* the run
NotebookStart(order) ==
    /\ kernel_pc.pc = "ready"
    /\ LET r == pathomx_notebook_start(pickle_in, kernel_vars, kernel_io,
                                       exclude_input_vars, order)
       IN /\ kernel_vars' = r.vars
          /\ kernel_io' = r.io
          /\ exclude_input_vars' = r.exclude
          /\ kernel_exc' = r.exc
          /\ kernel_pc' = [kernel_pc EXCEPT !.pc = IF r.exc = "none" THEN "started" ELSE "idle"]
    /\ UNCHANGED <<ui_vars, pickle_in, pickle_out>>

\* what a computation body binds: its output ports to a table, a value that is
\* not portable or a drawn figure; a figure name to a drawn figure; a private
\* name and the name of a loaded variable to a table; styles to a changed
\* style set
BodyValues ==
    {Obj("DataFrame", 1), Obj("dict", 1)}
        \cup {DrawnFigure(a, i) : a \in 0..MaxAxes, i \in 0..MaxImages}
BodyNames(t) ==
    {Name(o) : o \in DOMAIN data_o[t]}
        \cup {Name("PC1"), PrivateName("tmp"), Name("config"), Name("styles")}
BodyValuesFor(k) ==
    CASE k \in {PrivateName("tmp"), Name("config")} -> {Obj("DataFrame", 1)}
      [] k = Name("PC1") -> {DrawnFigure(MaxAxes, MaxImages)}
      [] k = Name("styles") -> {Obj("StylesManager", 2)}
      [] OTHER -> BodyValues
RECURSIVE Bindings(_)
Bindings(S) ==
    IF S = {} THEN {<<>>}
    ELSE LET k == CHOOSE x \in S : TRUE
             rest == Bindings(S \ {k})
         IN rest \cup {(k :> v) @@ B : v \in BodyValuesFor(k), B \in rest}
BodyAssignments(t) == Bindings(BodyNames(t))

\* the computation body runs to its end and leaves its bindings in the namespace
RunBody(B) ==
    /\ kernel_pc.pc = "started"
    /\ kernel_vars' = B @@ kernel_vars
    /\ kernel_pc' = [kernel_pc EXCEPT !.pc = "ran"]
    /\ UNCHANGED <<ui_vars, kernel_io, exclude_input_vars, pickle_in, pickle_out,
                   kernel_exc>>

\* pathomx_notebook_stop(_pathomx_pickle_out, globals()); the kernel process
\* may die once the file is open, and then restarts with an empty namespace
NotebookStop(order, written) ==
    /\ kernel_pc.pc = "ran"
    /\ LET r == pathomx_notebook_stop(kernel_vars, kernel_io, exclude_input_vars, order, written)
       IN /\ pickle_out' = r.file
          /\ IF r.returned
             THEN /\ kernel_vars' = r.vars
                  /\ kernel_exc' = "none"
                  /\ UNCHANGED <<kernel_io, exclude_input_vars>>
             ELSE /\ kernel_vars' = <<>>
                  /\ kernel_io' = NoIO
                  /\ exclude_input_vars' = {}
                  /\ kernel_exc' = "killed"
    /\ kernel_pc' = [kernel_pc EXCEPT !.pc = "idle"]
    /\ UNCHANGED <<ui_vars, pickle_in>>

\* a whole job of another tool u (one without inputs) runs in the same kernel
\* between two jobs of the tool: start, a body that binds u's output ports to
\* v, stop. The files of u are its own and are not followed.
OtherToolRuns(u, v, order) ==
    /\ u \in Tools /\ u # kernel_pc.tool
    /\ kernel_pc.pc = "idle"
    /\ LET job == varsi(State, u)
           started == pathomx_notebook_start(
                          PickleFile(job.io, pickle_dump(pickled_varsi(job))),
                          kernel_vars, kernel_io, exclude_input_vars, <<>>)
           ran == [k \in DOMAIN started.vars \cup {Name(o) : o \in DOMAIN job.io.output} |->
                      IF k \in {Name(o) : o \in DOMAIN job.io.output} THEN v
                      ELSE started.vars[k]]
           stopped == pathomx_notebook_stop(ran, started.io, started.exclude, order,
                                            Len(pickle_dump(collect_ovars(ran, started.exclude))) + 1)
       IN /\ kernel_vars' = stopped.vars
          /\ kernel_io' = started.io
          /\ exclude_input_vars' = started.exclude
          /\ kernel_exc' = "none"
    /\ UNCHANGED <<ui_vars, pickle_in, pickle_out, kernel_pc>>

\* ------------------------------------------------------ onSelectDataSource
\* data.consume_with(dso, consumer_def): bind the input; a changed source is
\* a source update for the tool itself
consume_with(s, t, p, dso) ==
    IF s.i[t][p] = dso
    THEN s
    ELSE source_updated([s EXCEPT !.i[t][p] = dso], t, dso[1], dso[2])

\* data.unget(target): stop consuming through this input
unget(s, t, p) == [s EXCEPT !.i[t][p] = None]

\* the datasets the dialog offers: every published dataset
current_datasets ==
    {d \in UNION {{<<u, o>> : o \in DOMAIN data_o[u]} : u \in Tools} :
        data_o[d[1]][d[2]] # NoneVal}

\* for cb in dialog.lw_consumeri: consume_with the chosen dataset, or unget
RECURSIVE onSelectDataSource(_, _, _, _)
onSelectDataSource(s, t, defs, sel) ==
    IF defs = <<>> THEN s
    ELSE LET p == Head(defs)
             s1 == IF sel[p] # None THEN consume_with(s, t, p, sel[p]) ELSE unget(s, t, p)
         IN onSelectDataSource(s1, t, Tail(defs), sel)

\* the data-source dialog is accepted with one choice per input
OnSelectDataSource(t, sel) ==
    /\ t \in Tools
    /\ consumer_defs[t] # <<>>
    /\ sel \in [DOMAIN data_i[t] -> current_datasets \cup {None}]
    /\ Commit(onSelectDataSource(State, t, consumer_defs[t], sel),
              Op("onSelectDataSource", t))

\* ------------------------------------------------------- DialogDataSource
\* a Python object with its class; == between objects of different classes
\* that define no common comparison is False
PyObject(class, val) == [class |-> class, val |-> val]

\* the entries of current_datasets are dataset objects (.name, .manager,
\* .shape, .entities_t); data.i[target] is what generate() unpacks as
\* `mo, mi = sm`: a (manager, interface) tuple, or None
dataset_object(d) == PyObject("DataSet", d)
data_i_value(b) == IF b = None THEN PyObject("NoneType", None) ELSE PyObject("tuple", b)

\* cdw.setCurrentIndex(nd + 1) for each dataset that == data.i[cd.target];
\* index 0 ('No input') when none does
currentIndex(s, t, p, datasets) ==
    LET M == {nd \in 1..Len(datasets) :
                 p \in DOMAIN s.i[t] /\ dataset_object(datasets[nd]) = data_i_value(s.i[t][p])}
    IN IF M = {} THEN 0 ELSE CHOOSE nd \in M : \A m \in M : m <= nd

\* cdw.datasets = [None] + datasets, read at the combo box's current index
cb_datasets(datasets, i) == IF i > 0 THEN datasets[i] ELSE None

\* the dialog is opened and accepted with every combo box left at the index
\* the dialog gave it
OnSelectDataSourceUntouched(t, datasets) ==
    /\ t \in Tools
    /\ consumer_defs[t] # <<>>
    /\ LET sel == [p \in DOMAIN data_i[t] |->
                      cb_datasets(datasets, currentIndex(State, t, p, datasets))]
       IN Commit(onSelectDataSource(State, t, consumer_defs[t], sel),
                 Op("onSelectDataSource_untouched", t))

\* list.index(x): the first position of x, 0 for ValueError
index(list, x) ==
    IF \E n \in DOMAIN list : list[n] = x
    THEN CHOOSE n \in DOMAIN list : list[n] = x /\ \A m \in 1..(n - 1) : list[m] # x
    ELSE 0

\* list.remove(x): drop the first occurrence; the list is left alone when the
\* call raises ValueError
remove(list, x) ==
    IF index(list, x) = 0 THEN list
    ELSE [n \in 1..(Len(list) - 1) |-> IF n < index(list, x) THEN list[n] ELSE list[n + 1]]

\* ------------------------------------------- creating and deleting tools
\* id(self): the address of a new object is one that no live object has; a
\* tool object stays alive while current_tools or current_tools_by_id holds it
Addresses == 1..MaxTools
LiveIds == {tool_id[t] : t \in Range(current_tools) \cup Range(current_tools_by_id)}

\* self._working_path = os.path.join(tempfile.gettempdir(), str(id(self)))
working_path(t) == <<"tmp", tool_id[t]>>
pathomx_pickle_in(t) == working_path(t) \o <<"in">>
pathomx_pickle_out(t) == working_path(t) \o <<"out">>

\* GenericApp.__init__ of a plugin tool with input ports ins, output ports
\* outs and configuration keys: the object gets address a, is registered and
\* gets its fields
CreateTool(a, ins, outs, keys) ==
    /\ Len(tool_id) < MaxTools
    /\ a \in Addresses \ LiveIds
    /\ LET n == Len(tool_id) + 1
       IN /\ tool_id' = Append(tool_id, a)
          /\ current_tools' = Append(current_tools, n)
          /\ current_tools_by_id' =
                 [x \in DOMAIN current_tools_by_id \cup {a} |->
                     IF x = a THEN n ELSE current_tools_by_id[x]]
          /\ init_stage' = Append(init_stage, "constructed")
          /\ is_autoconsume_success' = Append(is_autoconsume_success, FALSE)
          /\ is_job_active' = Append(is_job_active, FALSE)
          /\ queued_start' = Append(queued_start, FALSE)
          /\ pause_analysis_flag' = Append(pause_analysis_flag, FALSE)
          /\ latest_generator_result' = Append(latest_generator_result, None)
          /\ config' = Append(config, [k \in keys |-> 0])
          /\ consumer_defs' = Append(consumer_defs, ins)
          /\ data_i' = Append(data_i, [p \in Range(ins) |-> None])
          /\ data_o' = Append(data_o, [o \in outs |-> NoneVal])
          /\ views_data' = Append(views_data, <<>>)
          /\ notebook_queue' = Append(notebook_queue, <<>>)
          /\ unserved' = Append(unserved, FALSE)
          /\ stale' = Append(stale, FALSE)
          /\ nreq' = Append(nreq, 0)
          /\ sfq_runs' = Append(sfq_runs, 0)
          /\ emitted' = <<>>
          /\ notified' = {}
          /\ last_op' = Op("__init__", n)
    /\ UNCHANGED <<kernel_state, dialog_state>>

\* current_tools[::-1]
Reverse(list) == [n \in DOMAIN list |-> list[Len(list) + 1 - n]]

\* the candidates in list order
mut_candidates_oldest_first(list) == list

\* the candidate producers handed to consume_any_app
candidates(list) == Reverse(list)

\* data.consume_any_app(app_l): scan the candidate tools in the given order
\* and bind the first input of t to the first published output found
RECURSIVE consume_any_app(_, _, _)
consume_any_app(s, t, app_l) ==
    IF app_l = <<>> \/ DOMAIN s.i[t] = {} THEN [s |-> s, found |-> FALSE]
    ELSE LET u == Head(app_l)
             outs == {o \in DOMAIN s.o[u] : s.o[u][o] # NoneVal}
         IN IF outs # {}
            THEN [s |-> consume_with(s, t, consumer_defs[t][1],
                                     <<u, CHOOSE o \in outs : TRUE>>),
                  found |-> TRUE]
            ELSE consume_any_app(s, t, Tail(app_l))

\* the first timer: auto-consume, then connect source_updated and
\* config.updated (every tool is created with auto_consume_data=True)
InitAutoConsumeData(t) ==
    /\ t \in Tools
    /\ init_stage[t] = "constructed"
    /\ LET r == consume_any_app(State, t, candidates(current_tools))
       IN /\ CommitFields(r.s, Op("init_auto_consume_data", t))
          /\ is_autoconsume_success' = [is_autoconsume_success EXCEPT ![t] = r.found]
    /\ init_stage' = [init_stage EXCEPT ![t] = "connected"]
    /\ UNCHANGED <<current_tools, consumer_defs, tool_id, current_tools_by_id,
                   kernel_state, dialog_state>>

\* the second timer: notebook_path, code_editor and the notebook's code are
\* set; autogenerate is left on a timer when the auto-consume bound an input
InitNotebookLoad(t) ==
    /\ t \in Tools
    /\ init_stage[t] = "connected"
    /\ init_stage' = [init_stage EXCEPT
                         ![t] = IF is_autoconsume_success[t] # FALSE THEN "loaded"
                                ELSE "ready"]
    /\ CommitFields(State, Op("init_notebook", t))
    /\ UNCHANGED <<current_tools, consumer_defs, tool_id, current_tools_by_id,
                   is_autoconsume_success, kernel_state, dialog_state>>

\* the third timer: QTimer.singleShot(PX_INIT_SHOT, self.autogenerate)
InitAutogenerate(t) ==
    /\ t \in Tools
    /\ init_stage[t] = "loaded"
    /\ init_stage' = [init_stage EXCEPT ![t] = "ready"]
    /\ CommitFields(autogenerate(State, t), Op("init_autogenerate", t))
    /\ UNCHANGED <<current_tools, consumer_defs, tool_id, current_tools_by_id,
                   is_autoconsume_success, kernel_state, dialog_state>>

\* data.reset(): every input of t is unbound, every output of t is
\* unpublished and every input bound to one of them becomes unbound
reset(s, t) ==
    [s EXCEPT !.i = [c \in DOMAIN s.i |->
                       [p \in DOMAIN s.i[c] |->
                           IF c = t \/ (s.i[c][p] # None /\ s.i[c][p][1] = t)
                           THEN None ELSE s.i[c][p]]],
              !.o[t] = [o \in DOMAIN s.o[t] |-> NoneVal]]

\* delete() that also drops the tool's entry of current_tools_by_id
mut_delete_forgets_id(t) ==
    /\ t \in Tools
    /\ CommitFields(reset(State, t), Op("delete", t))
    /\ current_tools' = remove(current_tools, t)
    /\ current_tools_by_id' =
           [x \in DOMAIN current_tools_by_id \ {tool_id[t]} |-> current_tools_by_id[x]]
    /\ UNCHANGED <<consumer_defs, tool_id, init_stage,
                   is_autoconsume_success, kernel_state, dialog_state>>

\* delete() that leaves the tool in current_tools
mut_delete_stays_listed(t) ==
    /\ t \in Tools
    /\ CommitFields(reset(State, t), Op("delete", t))
    /\ UNCHANGED <<current_tools, consumer_defs, tool_id, current_tools_by_id, init_stage,
                   is_autoconsume_success, kernel_state, dialog_state>>

\* delete(): data.reset(), config.reset(), current_tools.remove(self); the
\* entry of current_tools_by_id and the working directory stay
delete(t) ==
    /\ t \in Tools
    /\ CommitFields(reset(State, t), Op("delete", t))
    /\ current_tools' = remove(current_tools, t)
    /\ UNCHANGED <<consumer_defs, tool_id, current_tools_by_id, init_stage,
                   is_autoconsume_success, kernel_state, dialog_state>>

\* the queue delivers the result of a job whose tool was deleted during the
\* run: delete() leaves the job in the queue and _worker_result_callback
\* registered with it. When the objects that delete() handed to deleteLater()
\* are destroyed already, progress.emit(1.) raises RuntimeError and the
\* callback ends there; when they are not, the callback runs as for a live tool.
LateWorkerResult(t, result, order, destroyed) ==
    /\ t \in (DOMAIN tool_id) \ Tools
    /\ notebook_queue[t] # <<>>
    /\ LET s == [State EXCEPT !.queue[t] = Tail(@)]
       IN IF destroyed THEN Commit(s, Op("worker_result_destroyed", t))
          ELSE Commit(worker_result_callback(s, t, result, order), Op("worker_result", t))

\* ------------------------------------------------- MatchStyleManagerDialog
\* A rule is a (md, ls) pair of objects, named by a number; two pairs are
\* equal when they are the same objects. The global styles holds the two
\* lists and, per md object, its is_auto attribute; made counts the pairs
\* created so far.
StylesManager(matchdefs, automatchdefs, auto) ==
    [matchdefs |-> matchdefs, automatchdefs |-> automatchdefs,
     is_auto |-> [r \in 1..(MaxAuto + MaxNew) |-> r \in auto],
     made |-> Len(matchdefs) + Len(automatchdefs)]

\* the tree after styles_tw.clear(); populate_style_list()
populate_style_list(st) == st.matchdefs \o st.automatchdefs

\* the five buttons leave every field of every tool alone
ToolFieldsUnchanged ==
    UNCHANGED <<current_tools, is_job_active, queued_start, pause_analysis_flag,
                latest_generator_result, config, consumer_defs, data_i, data_o, views_data,
                notebook_queue, emitted, notified, unserved, stale, nreq, sfq_runs,
                init_state, export_state, kernel_state>>

\* New, accepted: md = ClassMatchDefinition(), a rule that is not automatic
onNew ==
    /\ styles.made < MaxAuto + MaxNew
    /\ LET r == styles.made + 1
           st == [styles EXCEPT !.matchdefs = Append(@, r), !.is_auto[r] = FALSE,
                                !.made = r]
       IN /\ styles' = st
          /\ styles_tw' = populate_style_list(st)
          /\ styles_exc' = "none"
          /\ last_op' = Op("onNew", r)
    /\ ToolFieldsUnchanged

\* onEdit that leaves the edited rule in automatchdefs
mut_onEdit_keeps_auto_entry(item) ==
    /\ item \in Range(styles_tw)
    /\ LET st == IF styles.is_auto[item]
                 THEN [styles EXCEPT !.matchdefs = Append(@, item), !.is_auto[item] = FALSE]
                 ELSE styles
       IN /\ styles' = st
          /\ styles_tw' = IF styles.is_auto[item] THEN populate_style_list(st) ELSE styles_tw
          /\ styles_exc' = "none"
          /\ last_op' = Op("onEdit", item)
    /\ ToolFieldsUnchanged

\* Edit of the selected item, accepted
onEdit(item) ==
    /\ item \in Range(styles_tw)
    /\ LET st == IF styles.is_auto[item]
                 THEN [styles EXCEPT !.automatchdefs = remove(@, item),
                                     !.matchdefs = Append(@, item),
                                     !.is_auto[item] = FALSE]
                 ELSE styles
       IN /\ styles' = st
          /\ styles_tw' = IF styles.is_auto[item] THEN populate_style_list(st) ELSE styles_tw
          /\ styles_exc' = "none"
          /\ last_op' = Op("onEdit", item)
    /\ ToolFieldsUnchanged

\* list[a], list[b] = list[b], list[a]
swap(list, a, b) ==
    [n \in DOMAIN list |-> IF n = a THEN list[b] ELSE IF n = b THEN list[a] ELSE list[n]]

\* Move up: the ValueError of index() for an automatic rule is caught,
\* nothing to do for the first rule
onMoveUp(item) ==
    /\ item \in Range(styles_tw)
    /\ LET idx == index(styles.matchdefs, item)
           st == IF idx > 1 THEN [styles EXCEPT !.matchdefs = swap(@, idx - 1, idx)]
                 ELSE styles
       IN /\ styles' = st
          /\ styles_tw' = IF idx > 1 THEN populate_style_list(st) ELSE styles_tw
          /\ styles_exc' = "none"
          /\ last_op' = Op("onMoveUp", item)
    /\ ToolFieldsUnchanged

\* Move down: `idx < len(matchdefs)` always holds, and matchdefs[idx + 1]
\* raises IndexError for the last rule before anything is changed
onMoveDown(item) ==
    /\ item \in Range(styles_tw)
    /\ LET idx == index(styles.matchdefs, item)
           moved == idx > 0 /\ idx < Len(styles.matchdefs)
           st == IF moved THEN [styles EXCEPT !.matchdefs = swap(@, idx, idx + 1)]
                 ELSE styles
       IN /\ styles' = st
          /\ styles_tw' = IF moved THEN populate_style_list(st) ELSE styles_tw
          /\ styles_exc' = IF idx > 0 /\ idx = Len(styles.matchdefs) THEN "IndexError"
                           ELSE "none"
          /\ last_op' = Op("onMoveDown", item)
    /\ ToolFieldsUnchanged

\* Delete of the current item: taken out of the tree and out of its list
style_onDelete(item) ==
    /\ item \in Range(styles_tw)
    /\ styles' = IF styles.is_auto[item]
                 THEN [styles EXCEPT !.automatchdefs = remove(@, item)]
                 ELSE [styles EXCEPT !.matchdefs = remove(@, item)]
    /\ styles_tw' = remove(styles_tw, item)
    /\ styles_exc' = "none"
    /\ last_op' = Op("style_onDelete", item)
    /\ ToolFieldsUnchanged

\* ------------------------------------------------------- ExportImageDialog
\* The dialog at the units and the resolution it opens with. A print spin
\* box holds a whole number of its steps, and one step is DotsPerStep pixels.
PixelSizes == DotsPerStep..(DotsPerStep * MaxPrint)
PrintSizes == 1..MaxPrint

\* get_as_print_size(s, u) as the print spin box keeps it: the size in print
\* steps, rounded to the nearest step
get_as_print_size(s) == (2 * s + DotsPerStep) \div (2 * DotsPerStep)

\* get_pixel_size(s, pu, r, ru): print steps times dots per step
get_pixel_size(s) == s * DotsPerStep

\* the dialog after __init__ for an image of w x h pixels: the boxes are set
\* and update_print_dimensions() has run before any handler is connected
ExportImageDialog(w, h) ==
    [width |-> w, height |-> h,
     width_p |-> get_as_print_size(w), height_p |-> get_as_print_size(h),
     w |-> w, h |-> h, updating |-> FALSE]

\* the slot connected to the valueChanged signal of a spin box
valueChanged(box) ==
    IF box \in {"width", "height"} THEN "changed_image_dimensions"
    ELSE "changed_print_dimensions"

\* a handler that has just been called; first and second are the values its
\* update_*_dimensions() computes before it sets the two boxes
Frame(handler) == [handler |-> handler, pc |-> "test", first |-> 0, second |-> 0]

\* the stack with the running handler's frame replaced
SetTop(stack, frame) == [stack EXCEPT ![Len(stack)] = frame]

\* the boxes a handler's update sets, in the order it sets them
Targets(handler) ==
    IF handler = "changed_image_dimensions" THEN <<"width_p", "height_p">>
    ELSE <<"width", "height">>

ExportUnchanged == UNCHANGED <<tool_vars, init_state, style_state, kernel_state>>

\* the user changes the value of a spin box while no handler runs:
\* valueChanged calls the connected handler
EditSpinBox(box, v) ==
    /\ export_stack = <<>>
    /\ v # export_dialog[box]
    /\ export_dialog' = [export_dialog EXCEPT ![box] = v]
    /\ export_stack' = <<Frame(valueChanged(box))>>
    /\ ExportUnchanged

\* `if not self._updating: self._updating = True`, and the first lines of
\* update_print_dimensions() / update_image_dimensions(), which read the
\* boxes, assign _w and _h and compute the two values to set
ChangedDimensionsTest ==
    /\ export_stack # <<>>
    /\ LET f == export_stack[Len(export_stack)]
           d == export_dialog
       IN /\ f.pc = "test"
          /\ IF d.updating
             THEN /\ export_stack' = SetTop(export_stack, [f EXCEPT !.pc = "return"])
                  /\ UNCHANGED export_dialog
             ELSE IF f.handler = "changed_image_dimensions"
             THEN /\ export_dialog' = [d EXCEPT !.updating = TRUE,
                                                !.w = d.width, !.h = d.height]
                  /\ export_stack' =
                         SetTop(export_stack,
                                [f EXCEPT !.pc = "first",
                                          !.first = get_as_print_size(d.width),
                                          !.second = get_as_print_size(d.height)])
             ELSE /\ export_dialog' = [d EXCEPT !.updating = TRUE,
                                                !.w = get_pixel_size(d.width_p),
                                                !.h = get_pixel_size(d.height_p)]
                  /\ export_stack' =
                         SetTop(export_stack,
                                [f EXCEPT !.pc = "first",
                                          !.first = get_pixel_size(d.width_p),
                                          !.second = get_pixel_size(d.height_p)])
    /\ ExportUnchanged

\* a setValue() of the running update: n = 1 for the width box, 2 for the
\* height box. A value that differs from the box's is stored and
\* valueChanged calls the box's handler, inside this call.
UpdateDimensionsSet(n) ==
    /\ export_stack # <<>>
    /\ LET f == export_stack[Len(export_stack)]
           box == Targets(f.handler)[n]
           v == IF n = 1 THEN f.first ELSE f.second
           next == [f EXCEPT !.pc = IF n = 1 THEN "second" ELSE "return"]
       IN /\ f.pc = (IF n = 1 THEN "first" ELSE "second")
          /\ IF v = export_dialog[box]
             THEN /\ export_stack' = SetTop(export_stack, next)
                  /\ UNCHANGED export_dialog
             ELSE /\ export_dialog' = [export_dialog EXCEPT ![box] = v]
                  /\ export_stack' = Append(SetTop(export_stack, next),
                                            Frame(valueChanged(box)))
    /\ ExportUnchanged

\* the end of a handler: `self._updating = False`, which is outside the if,
\* and in changed_image_dimensions the two lines that keep _w and _h synced
ChangedDimensionsReturn ==
    /\ export_stack # <<>>
    /\ LET f == export_stack[Len(export_stack)]
           d == export_dialog
       IN /\ f.pc = "return"
          /\ export_dialog' =
                 IF f.handler = "changed_image_dimensions"
                 THEN [d EXCEPT !.updating = FALSE, !.w = d.width, !.h = d.height]
                 ELSE [d EXCEPT !.updating = FALSE]
          /\ export_stack' = SubSeq(export_stack, 1, Len(export_stack) - 1)
    /\ ExportUnchanged

\* ------------------------------------------------------ initial conditions
\* GenericApp.__init__ for every tool of a workspace: ins/outs/keys give each
\* tool's input ports (in consumer_defs order), output ports and config keys
InitFields(n, ins, pub, keys, binds) ==
    /\ current_tools = [t \in 1..n |-> t]
    /\ is_job_active = [t \in 1..n |-> FALSE]
    /\ queued_start = [t \in 1..n |-> FALSE]
    /\ pause_analysis_flag = [t \in 1..n |-> FALSE]
    /\ latest_generator_result = [t \in 1..n |-> None]
    /\ config = [t \in 1..n |-> [k \in keys[t] |-> 0]]
    /\ consumer_defs = ins
    /\ data_i = binds
    /\ data_o = pub
    /\ views_data = [t \in 1..n |-> prerender(pub[t])]
    /\ notebook_queue = [t \in 1..n |-> <<>>]
    /\ emitted = <<>>
    /\ last_op = Op("init", 0)
    /\ notified = {}
    /\ unserved = [t \in 1..n |-> FALSE]
    /\ stale = [t \in 1..n |-> FALSE]
    /\ nreq = [t \in 1..n |-> 0]
    /\ sfq_runs = [t \in 1..n |-> 0]
    /\ kernel_vars = <<>>
    /\ kernel_io = NoIO
    /\ exclude_input_vars = {}
    /\ pickle_in = MissingFile
    /\ pickle_out = MissingFile
    /\ kernel_pc = [pc |-> "idle", tool |-> n]
    /\ kernel_exc = "none"
    /\ tool_id = [t \in 1..n |-> t]
    /\ current_tools_by_id = [a \in 1..n |-> a]
    /\ init_stage = [t \in 1..n |-> "ready"]
    /\ is_autoconsume_success = [t \in 1..n |-> FALSE]

\* the tools of a workspace, with no style rule defined
InitTools(n, ins, pub, keys, binds) ==
    /\ InitFields(n, ins, pub, keys, binds)
    /\ styles = StylesManager(<<>>, <<>>, {})
    /\ styles_tw = <<>>
    /\ styles_exc = "none"
    /\ export_dialog = ExportImageDialog(DotsPerStep, DotsPerStep)
    /\ export_stack = <<>>

Unbound(ins) == [t \in DOMAIN ins |-> [p \in Range(ins[t]) |-> None]]
\* output ports that have not been published yet / that hold a first dataset
Unpublished(outs) == [t \in DOMAIN outs |-> [o \in outs[t] |-> NoneVal]]
Published(outs) == [t \in DOMAIN outs |-> [o \in outs[t] |-> [type |-> "DataFrame", ver |-> 1]]]

\* a configurable source tool with one output, and a viewer tool with one input
Init ==
    LET ins == <<<<>>, <<"input_data">>>>
    IN InitTools(2, ins, Unpublished(<<{"output_data"}, {}>>), <<ConfigKeys, {}>>, Unbound(ins))

Next ==
    \/ \E t \in Tools : OnRecalculate(t)
    \/ \E t \in Tools : StartFromQueue(t)
    \/ \E t \in Tools : \E k \in ConfigKeys : \E v \in ConfigValues(k) : ConfigSet(t, k, v)
    \/ \E t \in Tools : \E r \in Results(t) : \E order \in Perms(DOMAIN data_o[t]) :
          WorkerResult(t, r, order)
    \/ \E t \in Tools : \E sel \in [DOMAIN data_i[t] -> current_datasets \cup {None}] :
          OnSelectDataSource(t, sel)

Spec == Init /\ [][Next]_vars

\* The notebook queue runs every job it was handed and delivers its result;
\* nothing in the tool schedules any other handler.
Deliver ==
    \E t \in Tools : \E r \in Results(t) : \E order \in Perms(DOMAIN data_o[t]) :
        WorkerResult(t, r, order)

FairSpec == Init /\ [][Next]_vars /\ WF_vars(Deliver)

\* a PCA-like tool with two outputs, and a viewer tool with one input
InitPorts ==
    LET ins == <<<<>>, <<"input_data">>>>
    IN InitTools(2, ins, Unpublished(<<{"scores", "weights"}, {}>>), <<{}, {}>>, Unbound(ins))

NextPorts ==
    \/ \E t \in Tools : OnRecalculate(t)
    \/ \E t \in Tools : \E r \in Results(t) : \E order \in Perms(DOMAIN data_o[t]) :
          WorkerResult(t, r, order)
    \/ \E t \in Tools : \E sel \in [DOMAIN data_i[t] -> current_datasets \cup {None}] :
          OnSelectDataSource(t, sel)

SpecPorts == InitPorts /\ [][NextPorts]_vars

\* a diamond A -> B, A -> C, B -> D, C -> D of tools that have all run once
InitDiamond ==
    LET ins == <<<<>>, <<"input_data">>, <<"input_data">>, <<"input_1", "input_2">>>>
        binds == <<<<>>,
                   [input_data |-> <<1, "output_data">>],
                   [input_data |-> <<1, "output_data">>],
                   [input_1 |-> <<2, "output_data">>, input_2 |-> <<3, "output_data">>]>>
    IN InitTools(4, ins, Published(<<{"output_data"}, {"output_data"}, {"output_data"}, {}>>),
                 <<{}, {}, {}, {}>>, binds)

\* the source tool is recalculated by the user; everything else follows from
\* the results the queue delivers
NextDiamond ==
    \/ \E t \in Tools : consumer_defs[t] = <<>> /\ OnRecalculate(t)
    \/ \E t \in Tools : \E r \in Results(t) : \E order \in Perms(DOMAIN data_o[t]) :
          WorkerResult(t, r, order)

SpecDiamond == InitDiamond /\ [][NextDiamond]_vars

\* a source tool with one output and one full-recompute setting, and a viewer
\* tool with one input; both have the pause toggle on their data toolbar
InitPause ==
    LET ins == <<<<>>, <<"input_data">>>>
    IN InitTools(2, ins, Unpublished(<<{"output_data"}, {}>>), <<{"k_all"}, {}>>, Unbound(ins))

NextPause ==
    \/ \E t \in Tools : OnRecalculate(t)
    \/ \E t \in Tools : \E checked \in BOOLEAN : OnAutoAnalysisToggle(t, checked)
    \/ \E t \in Tools : \E k \in ConfigKeys : \E v \in ConfigValues(k) : ConfigSet(t, k, v)
    \/ \E t \in Tools : \E r \in Results(t) : \E order \in Perms(DOMAIN data_o[t]) :
          WorkerResult(t, r, order)
    \/ \E t \in Tools : \E sel \in [DOMAIN data_i[t] -> current_datasets \cup {None}] :
          OnSelectDataSource(t, sel)

SpecPause == InitPause /\ [][NextPause]_vars

\* the workspace of InitPorts with the data-source dialog of the viewer tool
NextDialog ==
    \/ \E t \in Tools : OnRecalculate(t)
    \/ \E t \in Tools : \E r \in Results(t) : \E order \in Perms(DOMAIN data_o[t]) :
          WorkerResult(t, r, order)
    \/ \E t \in Tools : \E sel \in [DOMAIN data_i[t] -> current_datasets \cup {None}] :
          OnSelectDataSource(t, sel)
    \/ \E t \in Tools : \E datasets \in Perms(current_datasets) :
          OnSelectDataSourceUntouched(t, datasets)

SpecDialog == InitPorts /\ [][NextDialog]_vars

\* the style manager opened on a workspace whose runs have made the kernel
\* assign MaxAuto automatic rules
InitStyles ==
    LET ins == <<<<>>, <<"input_data">>>>
    IN /\ InitFields(2, ins, Unpublished(<<{"output_data"}, {}>>), <<{}, {}>>, Unbound(ins))
       /\ styles = StylesManager(<<>>, [r \in 1..MaxAuto |-> r], 1..MaxAuto)
       /\ styles_tw = populate_style_list(styles)
       /\ styles_exc = "none"
       /\ export_dialog = ExportImageDialog(DotsPerStep, DotsPerStep)
       /\ export_stack = <<>>

NextStyles ==
    \/ onNew
    \/ \E item \in Range(styles_tw) : onEdit(item)
    \/ \E item \in Range(styles_tw) : onMoveUp(item)
    \/ \E item \in Range(styles_tw) : onMoveDown(item)
    \/ \E item \in Range(styles_tw) : style_onDelete(item)

SpecStyles == InitStyles /\ [][NextStyles]_vars

\* the export dialog opened on an image of any size, in a workspace of one
\* tool, and the user changing the four size boxes
InitExport ==
    /\ InitFields(1, <<<<>>>>, Unpublished(<<{"output_data"}>>), <<{}>>, <<<<>>>>)
    /\ styles = StylesManager(<<>>, <<>>, {})
    /\ styles_tw = <<>>
    /\ styles_exc = "none"
    /\ \E w, h \in PixelSizes : export_dialog = ExportImageDialog(w, h)
    /\ export_stack = <<>>

NextExport ==
    \/ \E box \in {"width", "height"} : \E v \in PixelSizes : EditSpinBox(box, v)
    \/ \E box \in {"width_p", "height_p"} : \E v \in PrintSizes : EditSpinBox(box, v)
    \/ ChangedDimensionsTest
    \/ \E n \in {1, 2} : UpdateDimensionsSet(n)
    \/ ChangedDimensionsReturn

SpecExport == InitExport /\ [][NextExport]_vars

\* a run that succeeds and exports a first dataset for every output port
FirstResult(t) ==
    [status |-> 0, varso |-> [o \in DOMAIN data_o[t] |-> [type |-> "DataFrame", ver |-> 1]]]

\* a session with two filter tools (one input, one output) that have run, in
\* which further tools are created, wired and deleted; a new tool runs when
\* its start-up or a new source makes it
InitLifecycle ==
    LET ins == <<<<"input_data">>, <<"input_data">>>>
    IN InitTools(2, ins, Published(<<{"output_data"}, {"output_data"}>>), <<{}, {}>>,
                 Unbound(ins))

NextLifecycle ==
    \/ \E a \in Addresses : \E ins \in {<<>>, <<"input_data">>} :
          CreateTool(a, ins, {"output_data"}, {})
    \/ \E t \in Tools : InitAutoConsumeData(t)
    \/ \E t \in Tools : InitNotebookLoad(t)
    \/ \E t \in Tools : InitAutogenerate(t)
    \/ \E t \in Tools : \E order \in Perms(DOMAIN data_o[t]) :
          WorkerResult(t, FirstResult(t), order)
    \/ \E t \in Tools : delete(t)
    \/ \E t \in DOMAIN tool_id : \E order \in Perms(DOMAIN data_o[t]) :
          \E destroyed \in BOOLEAN : LateWorkerResult(t, FirstResult(t), order, destroyed)

SpecLifecycle == InitLifecycle /\ [][NextLifecycle]_vars

\* the same session with the data-source dialog of every tool, while the
\* queue has not yet delivered a result
NextWiring ==
    \/ \E a \in Addresses : \E ins \in {<<>>, <<"input_data">>} :
          CreateTool(a, ins, {"output_data"}, {})
    \/ \E t \in Tools : InitAutoConsumeData(t)
    \/ \E t \in Tools : InitNotebookLoad(t)
    \/ \E t \in Tools : InitAutogenerate(t)
    \/ \E t \in Tools : delete(t)
    \/ \E t \in Tools : \E sel \in [DOMAIN data_i[t] -> current_datasets \cup {None}] :
          OnSelectDataSource(t, sel)

SpecWiring == InitLifecycle /\ [][NextWiring]_vars

\* a session with a configurable source tool, in which one viewer tool with
\* a rendering setting is created and starts up while anything else goes on
InitStartup ==
    InitTools(1, <<<<>>>>, Unpublished(<<{"output_data"}>>), <<{"k_view"}>>, <<<<>>>>)

NextStartup ==
    \/ \E a \in Addresses :
          Len(tool_id) = 1 /\ CreateTool(a, <<"input_data">>, {}, {"k_view"})
    \/ \E t \in Tools : InitAutoConsumeData(t)
    \/ \E t \in Tools : InitNotebookLoad(t)
    \/ \E t \in Tools : InitAutogenerate(t)
    \/ \E t \in Tools : OnRecalculate(t)
    \/ \E t \in Tools : \E k \in ConfigKeys : \E v \in ConfigValues(k) : ConfigSet(t, k, v)
    \/ \E t \in Tools : \E r \in Results(t) : \E order \in Perms(DOMAIN data_o[t]) :
          WorkerResult(t, r, order)

SpecStartup == InitStartup /\ [][NextStartup]_vars

\* a source tool with one output and a viewer tool bound to it, both with
\* the pause toggle, and start_from_queue() called on a tool at any time
InitQueue ==
    LET ins == <<<<>>, <<"input_data">>>>
    IN InitTools(2, ins, Unpublished(<<{"output_data"}, {}>>), <<{}, {}>>,
                 <<<<>>, [input_data |-> <<1, "output_data">>]>>)

NextQueue ==
    \/ \E t \in Tools : OnRecalculate(t)
    \/ \E t \in Tools : StartFromQueue(t)
    \/ \E t \in Tools : \E checked \in BOOLEAN : OnAutoAnalysisToggle(t, checked)
    \/ \E t \in Tools : \E r \in Results(t) : \E order \in Perms(DOMAIN data_o[t]) :
          WorkerResult(t, r, order)

SpecQueue == InitQueue /\ [][NextQueue]_vars

\* the kernel running the jobs of a tool with one output and two inputs, one
\* bound to a source tool and one unbound
InitNotebook ==
    LET ins == <<<<>>, <<"input_1", "input_2">>>>
        binds == <<<<>>, [input_1 |-> <<1, "output_data">>, input_2 |-> None]>>
    IN InitTools(2, ins, Published(<<{"output_data"}, {"scores"}>>), <<{}, {}>>, binds)

\* how much of the stream can have reached the file when the call ends
Written ==
    0..(Len(pickle_dump(collect_ovars(
                alias_outputs(kernel_vars, kernel_io.output,
                              CHOOSE q \in Perms(DOMAIN kernel_io.output) : TRUE),
                exclude_input_vars))) + 1)

NextNotebook ==
    \/ \E t \in Tools : \E fault \in {"ok", "corrupt", "missing"} : RunnerWritesSnapshot(t, fault)
    \/ \E u \in Tools : \E order \in Perms(DOMAIN data_o[u]) :
          OtherToolRuns(u, Obj("DataFrame", 1), order)
    \/ \E order \in Perms(DOMAIN pickle_in.io.input) : NotebookStart(order)
    \/ \E B \in BodyAssignments(kernel_pc.tool) : RunBody(B)
    \/ \E order \in Perms(DOMAIN kernel_io.output) : \E written \in Written :
          NotebookStop(order, written)

SpecNotebook == InitNotebook /\ [][NextNotebook]_vars

\* ================================================================== claims
Outstanding(t) == Len(notebook_queue[t])
Emitted(t, signal, value) ==
    \E n \in DOMAIN emitted : emitted[n] = [tool |-> t, signal |-> signal, value |-> value]
\* the last handler delivered a worker result to tool t (the primed forms
\* speak of the step being taken)
DeliveredTo(t) == last_op = Op("worker_result", t)
FailedFor(t) == DeliveredTo(t) /\ Emitted(t, "status", "error")
\* the key generate() gives a binding in io['input']
KeyOf(binding) == IF binding = None THEN None ELSE <<binding[2], binding[1]>>

\* C1: single-flight. Under every interleaving of Recalculate, start_from_queue,
\* configuration updates, source updates and result deliveries, a tool never
\* has more than one job handed to the notebook queue whose result is still
\* to be delivered, and a tool with an outstanding job is marked active.
C1_SingleFlight ==
    \A t \in Tools : Outstanding(t) <= 1 /\ (Outstanding(t) = 1 => is_job_active[t])

\* C1 witness: a run is in flight while further requests arrived for the tool
C1_Witness ==
    \E t \in Tools : Outstanding(t) = 1 /\ queued_start[t] /\ nreq[t] >= 2

\* C2: coalescing. A step taken while a tool is Running never adds a job for
\* that tool (requests made during the run dispatch nothing at call time), and
\* the requests coalesced during a run are followed by at most one run started
\* from the queue.
C2_Coalescing ==
    [][\A t \in Tools :
          /\ is_job_active[t] => Len(notebook_queue'[t]) <= Len(notebook_queue[t])
          /\ sfq_runs'[t] <= 1]_vars

\* C2 witness: two or more requests arrived during one run, and a single
\* trailing run has been started from the queue for them
C2_Witness ==
    \E t \in Tools : nreq[t] >= 2 /\ sfq_runs[t] = 1 /\ Outstanding(t) = 1

\* C3: completion handling re-dispatches by itself. Whenever a result is
\* delivered to a tool whose queued flag was set during the run, the delivery
\* step clears the flag and leaves a new job dispatched for the tool.
C3_CompletionRedispatches ==
    [][\A t \in Tools :
          (DeliveredTo(t)' /\ Outstanding(t) = 1 /\ queued_start[t])
              => (~queued_start'[t] /\ is_job_active'[t] /\ Len(notebook_queue'[t]) = 1)]_vars

\* C5: the trailing run uses the state current at its dispatch. A job that any
\* handler other than the data-source dialog dispatches for a tool carries the
\* tool's configuration and the keys of its input bindings as they are when
\* the handler returns, whatever they were when requests were queued.
C5_TrailingRunUsesCurrentInputs ==
    [][\A t \in Tools :
          (notebook_queue[t] = <<>> /\ notebook_queue'[t] # <<>>
              /\ last_op'.op # "onSelectDataSource")
          => LET job == notebook_queue'[t][Len(notebook_queue'[t])]
             IN /\ job.config = config'[t]
                /\ DOMAIN job.io.input = DOMAIN data_i'[t]
                /\ \A p \in DOMAIN data_i'[t] : job.io.input[p] = KeyOf(data_i'[t][p])]_vars

\* C5 witness: start_from_queue has just dispatched the trailing run for two or
\* more requests queued on a configurable tool, under a configuration that is
\* no longer the one the tool started with
C5_Witness ==
    \E t \in Tools :
        /\ last_op = Op("start_from_queue", t)
        /\ nreq[t] >= 2 /\ Outstanding(t) = 1
        /\ "k_all" \in DOMAIN config[t] /\ config[t]["k_all"] # 0
        /\ notebook_queue[t][1].config = config[t]

\* C7: failure isolation. The delivery of a Failure result publishes nothing:
\* every published dataset of every tool is what it was before the delivery,
\* and no source update is raised.
C7_FailurePublishesNothing ==
    [][\A t \in Tools : FailedFor(t)' => (data_o' = data_o /\ notified' = {})]_vars

\* C7 witness: a Failure was delivered to a tool that had published a dataset
\* which a consumer is bound to
C7_Witness ==
    \E t \in Tools : \E o \in DOMAIN data_o[t] :
        FailedFor(t) /\ data_o[t][o] # NoneVal /\ \E c \in Tools : \E p \in DOMAIN data_i[c] :
            data_i[c][p] = <<t, o>>

\* C8: a failed run keeps the rendered outputs. The delivery of a Failure
\* result leaves the mapping held for the presentation layer as it was.
C8_FailureKeepsViews ==
    [][\A t \in Tools : FailedFor(t)' => views_data'[t] = views_data[t]]_vars

\* C10: a view-only configuration change dispatches nothing. When a tool that
\* holds the rendered outputs of a successful run changes a RECALCULATE_VIEW
\* key, no job is handed to the notebook queue.
C10_ViewChangeDispatchesNothing ==
    [][\A t \in Tools :
          (last_op' = Op("autoconfig", t) /\ views_data[t] # <<>>
              /\ "k_view" \in DOMAIN config[t] /\ config'[t]["k_view"] # config[t]["k_view"])
          => notebook_queue' = notebook_queue]_vars

\* C4: eventual consistency. A request that arrives while the tool is Running
\* is eventually followed by a dispatch of a run for that tool, given that the
\* results of dispatched jobs are eventually delivered.
C4_RequestEventuallyServed ==
    \A t \in {1, 2} : unserved[t] ~> ~unserved[t]

\* C6: diamond re-convergence. The sink of the diamond never has two jobs
\* outstanding, and once no job is outstanding anywhere its last run was
\* dispatched after the last publication of each of its parents.
C6_DiamondConverges ==
    LET D == current_tools[Len(current_tools)]
    IN /\ Outstanding(D) <= 1
       /\ (\A t \in Tools : notebook_queue[t] = <<>>) => ~stale[D]

\* C9: results are installed atomically. Every source update raised by a
\* handler reaches its consumer when the producer's outputs already are what
\* they are when the handler returns: no consumer is notified, and no
\* downstream run requested, between the installation of two outputs of a run.
C9_OutputsInstalledAtomically ==
    \A n \in notified : n.seen = data_o[n.from]

\* the step being taken raised a source update for tool c, or changed a
\* full-recompute setting of tool c
NotifiedIn(c) == \E n \in notified' : n.to = c
FullRecomputeIn(c) ==
    /\ last_op' = Op("autoconfig", c)
    /\ "k_all" \in DOMAIN config[c] /\ config'[c]["k_all"] # config[c]["k_all"]
\* the step is what a generate() call on tool c makes of c's run flags: an Idle
\* tool becomes Running with one job dispatched, a Running tool gets queued
RequestedIn(c) ==
    IF is_job_active[c]
    THEN is_job_active'[c] /\ queued_start'[c] /\ notebook_queue'[c] = notebook_queue[c]
    ELSE is_job_active'[c] /\ Len(notebook_queue'[c]) = 1

C12_NoAutomaticRetry ==
    [][\A t \in Tools :
          /\ (FailedFor(t)' /\ ~queued_start[t])
                => (~is_job_active'[t] /\ ~queued_start'[t] /\ notebook_queue'[t] = <<>>)
          /\ (~is_job_active[t] /\ ~queued_start[t] /\ notebook_queue'[t] # <<>>)
                => \/ last_op' \in {Op("onRecalculate", t), Op("autoconfig", t)}
                   \/ NotifiedIn(t)]_vars

\* C12 witness: a Failure was just delivered to a tool that received no
\* request during the run; the tool is Idle with nothing queued or dispatched
C12_Witness ==
    \E t \in Tools :
        /\ FailedFor(t) /\ nreq[t] = 0 /\ ~unserved[t]
        /\ ~is_job_active[t] /\ ~queued_start[t] /\ notebook_queue[t] = <<>>

\* the fields of the tools, without the queued flags
FieldsButQueued(s) ==
    <<s.active, s.paused, s.latest, s.cfg, s.i, s.o, s.views, s.queue>>

\* C13: generate() on a Running tool only sets the queued flag. A Recalculate
\* step on a Running tool leaves every field of every tool and every job in
\* flight as it was, except that the tool's queued flag is set, and emits no
\* status or progress signal; a second call changes nothing the first did not.
C13_GenerateWhileRunningFrame ==
    [][\A t \in Tools :
          (last_op' = Op("onRecalculate", t) /\ is_job_active[t]) =>
              /\ <<is_job_active', pause_analysis_flag', latest_generator_result', config',
                    data_i', data_o', views_data', notebook_queue'>>
                   = FieldsButQueued(State)
              /\ queued_start' = [queued_start EXCEPT ![t] = TRUE]
              /\ emitted' = <<>>
              /\ FieldsButQueued(generate(generate(State, t), t)) = FieldsButQueued(State)
              /\ generate(generate(State, t), t).queued = queued_start'
              /\ generate(generate(State, t), t).emitted = <<>>]_vars

\* C13 witness: Recalculate was pressed at least twice during a run whose job
\* was dispatched under a configuration that has changed since
C13_Witness ==
    \E t \in Tools :
        /\ last_op = Op("onRecalculate", t) /\ nreq[t] >= 2
        /\ Outstanding(t) = 1 /\ queued_start[t]
        /\ notebook_queue[t][1].config # config[t]

\* ---------------------------------------- claims on the life of a tool
\* the tools that have been deleted
Deleted == (DOMAIN tool_id) \ Tools

\* the producers tool t is bound to, and everything upstream of a set of tools
BoundTo(t) == {data_i[t][p][1] : p \in {q \in DOMAIN data_i[t] : data_i[t][q] # None}}
RECURSIVE Upstream(_, _)
Upstream(S, n) ==
    IF n = 0 THEN S ELSE Upstream(S \cup UNION {BoundTo(u) : u \in S}, n - 1)

C22_BindingGraphAcyclic ==
    \A t \in DOMAIN data_i : t \notin Upstream(BoundTo(t), Len(tool_id))

\* C23: the automatic bind of a starting tool chooses the most recently
\* created live tool that has a published output: no live tool with a
\* published output was created after the chosen producer, and the input
\* stays unbound only when no live tool has a published output.
C23_AutoBindFreshestProducer ==
    [][\A t \in Tools : (last_op' = Op("init_auto_consume_data", t) /\ DOMAIN data_i[t] # {}) =>
          LET offering == {u \in Tools : \E d \in current_datasets : d[1] = u}
              b == data_i'[t][consumer_defs[t][1]]
          IN IF offering = {} THEN b = None /\ ~is_autoconsume_success'[t]
             ELSE /\ b # None /\ b[1] \in offering /\ is_autoconsume_success'[t]
                  /\ \A u \in offering :
                        index(current_tools, u) <= index(current_tools, b[1])]_vars

\* C23 witness: a tool has just been bound by its start-up to the younger of
\* two live tools that both have a published output
C23_Witness ==
    \E t \in Tools : \E u, w \in Tools :
        /\ last_op = Op("init_auto_consume_data", t)
        /\ u # w /\ index(current_tools, w) < index(current_tools, u)
        /\ \E d \in current_datasets : d[1] = w
        /\ BoundTo(t) = {u}

\* C24: no two tools, deleted ones included, have the same working path, so
\* the 'in' and 'out' files of a tool are no other tool's.
C24_WorkingPathPrivate ==
    \A t, u \in DOMAIN tool_id :
        t # u => /\ working_path(t) # working_path(u)
                 /\ pathomx_pickle_in(t) # pathomx_pickle_in(u)
                 /\ pathomx_pickle_out(t) # pathomx_pickle_out(u)

\* C24 witness: a tool has just been created after another one was deleted
C24_Witness ==
    \E t \in Deleted : \E u \in Tools : last_op = Op("__init__", u) /\ t < u

\* C26: initialisation ordering. No job of a tool is in the queue before the
\* tool's init_notebook has run, and every step that hands a job of a tool
\* to the queue starts from a state in which its notebook is loaded,
\* whatever reaches the tool during its start-up.
C26_NoDispatchBeforeNotebook ==
    /\ [](\A t \in Tools : notebook_queue[t] # <<>> => notebook_loaded(t))
    /\ [][\A t \in Tools :
              Len(notebook_queue'[t]) > Len(notebook_queue[t]) => notebook_loaded(t)]_vars

\* C26 witness: a source update has just reached a tool whose signals are
\* connected and whose notebook is not loaded yet; no job was dispatched
C26_Witness ==
    \E t \in Tools :
        /\ init_stage[t] = "connected" /\ \E n \in notified : n.to = t
        /\ last_op.op = "worker_result" /\ is_autoconsume_success[t]
        /\ notebook_queue[t] = <<>>

\* C29: no stuck Running state. Whenever a tool's _is_job_active flag is set,
\* a job of the tool is outstanding in the notebook queue.
C29_ActiveHasJobOutstanding ==
    \A t \in Tools : is_job_active[t] => notebook_queue[t] # <<>>

\* the number of emissions of a signal of tool t, with a value of vals, in a
\* sequence of emissions
EmissionCount(em, t, signal, vals) ==
    Cardinality({n \in DOMAIN em :
                    em[n].tool = t /\ em[n].signal = signal /\ em[n].value \in vals})

\* C34: the status protocol of a tool. The 'active' emissions that no
\* 'done' or 'error' has answered yet are the tool's jobs in the notebook
\* queue, each answered by the delivery of its result. A handler emits
\* 'active' at most once and only while none is unanswered, emits 'done' or
\* 'error' at most once and only in answer to an unanswered 'active', every
\* 'active' comes with the dispatch of the job whose result answers it, and
\* progress 0.0 is emitted with each 'active' and 1.0 with each 'done' or
\* 'error'.
C34_StatusProtocol ==
    [][\A t \in Tools :
          LET act == EmissionCount(emitted', t, "status", {"active"})
              fin == EmissionCount(emitted', t, "status", {"done", "error"})
              unanswered == Len(notebook_queue[t])
          IN /\ act <= 1 /\ fin <= 1
             /\ fin = 1 => unanswered = 1
             /\ act = 1 => unanswered - fin = 0
             /\ Len(notebook_queue'[t]) = unanswered - fin + act
             /\ EmissionCount(emitted', t, "progress", {"0"}) = act
             /\ EmissionCount(emitted', t, "progress", {"1"}) = fin]_vars

\* C31: deleting a tool during a run is safe. The step that delivers the
\* result of a job to a tool deleted since publishes no dataset of that
\* tool, notifies no consumer, adds no job for any tool and leaves no job of
\* the deleted tool in the queue.
C31_LateResultIsInert ==
    [][\A t \in Deleted :
          (last_op' \in {Op("worker_result", t), Op("worker_result_destroyed", t)}) =>
              /\ data_o'[t] = data_o[t]
              /\ \A d \in current_datasets' : d[1] # t
              /\ notified' = {}
              /\ \A c \in DOMAIN notebook_queue :
                    Len(notebook_queue'[c]) <= Len(notebook_queue[c])
              /\ notebook_queue'[t] = <<>>]_vars

\* C33: the tool registries stay consistent. current_tools_by_id holds
\* exactly the tools of current_tools, each under its own id, and a deleted
\* tool is in neither.
C33_RegistriesConsistent ==
    /\ Range(current_tools_by_id) = Range(current_tools)
    /\ \A a \in DOMAIN current_tools_by_id : tool_id[current_tools_by_id[a]] = a
    /\ \A t \in Deleted : t \notin Range(current_tools) \cup Range(current_tools_by_id)

\* a handler of the export dialog is between its test of _updating and its
\* return with the flag taken: it is propagating values to the other boxes
Propagating(f) == f.pc \in {"first", "second"}

\* C35: the re-entrancy guard of the export dialog. While the outermost
\* change handler is propagating values to the other pair of boxes, _updating
\* is true and no handler called from inside it is propagating; when no
\* handler runs, _updating is false.
C35_ReentrancyGuard ==
    /\ export_stack = <<>> => ~export_dialog.updating
    /\ (export_stack # <<>> /\ Propagating(export_stack[1])) =>
          /\ export_dialog.updating
          /\ \A n \in 2..Len(export_stack) : ~Propagating(export_stack[n])

\* C36: Move up and Move down only ever swap the selected rule with its
\* neighbour in styles.matchdefs, so the rules and their number stay; moving
\* the first rule up, the last rule down or a rule that is not in matchdefs
\* leaves the list as it was and raises no error.
C36_MoveSwapsNeighbourOrNothing ==
    [][\A r \in Range(styles_tw) :
          LET idx == index(styles.matchdefs, r)
              up == last_op' = Op("onMoveUp", r)
              down == last_op' = Op("onMoveDown", r)
          IN (up \/ down) =>
                /\ Range(styles'.matchdefs) = Range(styles.matchdefs)
                /\ Len(styles'.matchdefs) = Len(styles.matchdefs)
                /\ styles'.automatchdefs = styles.automatchdefs
                /\ \/ styles'.matchdefs = styles.matchdefs
                   \/ up /\ idx > 1 /\ styles'.matchdefs = swap(styles.matchdefs, idx - 1, idx)
                   \/ /\ down /\ idx > 0 /\ idx < Len(styles.matchdefs)
                      /\ styles'.matchdefs = swap(styles.matchdefs, idx, idx + 1)
                /\ (idx = 0 \/ (up /\ idx = 1) \/ (down /\ idx = Len(styles.matchdefs))) =>
                      /\ styles'.matchdefs = styles.matchdefs
                      /\ styles_exc' = "none"]_vars

\* ------------------------------------------------- claims on pause and queue
\* C25: pause. An automatic trigger (a source update raised for the tool, a
\* configuration change) reaching a tool whose pause flag is set dispatches no
\* job, leaves the active and queued flags as they were and emits status
\* 'paused'; a manual Recalculate on a paused tool does what generate() does:
\* an Idle tool becomes Running with one job dispatched, a Running tool gets
\* queued, and 'paused' is not emitted.
C25_PauseBlocksAutomaticOnly ==
    [][\A t \in Tools :
          /\ (pause_analysis_flag[t] /\ (NotifiedIn(t) \/ last_op' = Op("autoconfig", t))) =>
                /\ notebook_queue'[t] = notebook_queue[t]
                /\ is_job_active'[t] = is_job_active[t]
                /\ queued_start'[t] = queued_start[t]
                /\ Emitted(t, "status", "paused")'
          /\ (pause_analysis_flag[t] /\ last_op' = Op("onRecalculate", t)) =>
                /\ RequestedIn(t)
                /\ is_job_active[t] => queued_start'[t]
                /\ ~is_job_active[t] => ~queued_start'[t]
                /\ ~Emitted(t, "status", "paused")']_vars

\* C25 witness: a configuration change has just reached a paused Idle tool;
\* 'paused' was emitted and nothing is dispatched or queued
C25_Witness ==
    \E t \in Tools :
        /\ pause_analysis_flag[t] /\ last_op = Op("autoconfig", t)
        /\ Emitted(t, "status", "paused")
        /\ ~is_job_active[t] /\ ~queued_start[t] /\ notebook_queue[t] = <<>>

\* C27: the data-source dialog preselects, for each input, the dataset bound
\* to it, so accepting the dialog with no selection changed leaves every
\* input binding of the tool as it was.
C27_AcceptUntouchedKeepsBindings ==
    [][\A t \in Tools :
          last_op' = Op("onSelectDataSource_untouched", t) => data_i'[t] = data_i[t]]_vars

\* C28: style-rule partition. No rule is in both matchdefs and automatchdefs
\* or twice in one of them, every rule in matchdefs has is_auto False and
\* every rule in automatchdefs has is_auto True, and the rules listed are
\* the ones the tree shows; an Edit of an automatic rule takes it out of
\* automatchdefs, puts it at the end of matchdefs and makes it non-automatic.
C28_StyleRulePartition ==
    /\ [](/\ \A a, b \in DOMAIN populate_style_list(styles) :
                 a # b => populate_style_list(styles)[a] # populate_style_list(styles)[b]
          /\ \A r \in Range(styles.matchdefs) : ~styles.is_auto[r]
          /\ \A r \in Range(styles.automatchdefs) : styles.is_auto[r]
          /\ Range(styles_tw) = Range(styles.matchdefs) \cup Range(styles.automatchdefs))
    /\ [][\A r \in Range(styles_tw) :
              (last_op' = Op("onEdit", r) /\ styles.is_auto[r]) =>
                  /\ styles'.matchdefs = Append(styles.matchdefs, r)
                  /\ r \notin Range(styles'.automatchdefs)
                  /\ Len(styles'.automatchdefs) = Len(styles.automatchdefs) - 1
                  /\ ~styles'.is_auto[r]]_vars

\* C28 witness: an automatic rule has just been edited while another rule
\* was already in matchdefs and another automatic rule remains
C28_Witness ==
    \E r \in Range(styles.matchdefs) :
        /\ last_op = Op("onEdit", r) /\ r <= MaxAuto
        /\ Len(styles.matchdefs) >= 2 /\ styles.matchdefs[Len(styles.matchdefs)] = r
        /\ styles.automatchdefs # <<>>

\* C30: start_from_queue() on a queued Idle tool dispatches exactly one job,
\* makes the tool Running and clears the queued flag, whatever the pause flag
\* is; on any other tool it changes no field of any tool, dispatches nothing
\* and emits nothing. A Recalculate on an Idle tool dispatches one job and
\* leaves the queued flag clear, also when it was set.
C30_StartFromQueueFrame ==
    [][\A t \in Tools :
          /\ last_op' = Op("start_from_queue", t) =>
                IF queued_start[t] /\ ~is_job_active[t]
                THEN /\ Len(notebook_queue'[t]) = Len(notebook_queue[t]) + 1
                     /\ is_job_active'[t] /\ ~queued_start'[t]
                     /\ \A u \in Tools \ {t} :
                            /\ notebook_queue'[u] = notebook_queue[u]
                            /\ is_job_active'[u] = is_job_active[u]
                            /\ queued_start'[u] = queued_start[u]
                ELSE /\ <<is_job_active', pause_analysis_flag', latest_generator_result',
                          config', data_i', data_o', views_data', notebook_queue'>>
                         = FieldsButQueued(State)
                     /\ queued_start' = queued_start
                     /\ emitted' = <<>>
          /\ (last_op' = Op("onRecalculate", t) /\ ~is_job_active[t]) =>
                /\ Len(notebook_queue'[t]) = Len(notebook_queue[t]) + 1
                /\ is_job_active'[t] /\ ~queued_start'[t]]_vars

\* C30 witness: start_from_queue() has just dispatched the one job of a paused
\* tool that was queued and Idle
C30_Witness ==
    \E t \in Tools :
        /\ last_op = Op("start_from_queue", t) /\ pause_analysis_flag[t]
        /\ sfq_runs[t] >= 1
        /\ is_job_active[t] /\ ~queued_start[t] /\ Outstanding(t) = 1


\* ---------------------------------------------------- claims on the kernel
\* the step being taken is a call of pathomx_notebook_start / _stop
StartStep == kernel_pc.pc = "ready" /\ kernel_pc'.pc # "ready"
StopStep == kernel_pc.pc = "ran" /\ kernel_pc'.pc = "idle"
\* a binding of a portable type under a name that is not private
Stale(ns, k) == ns[k].type \in MAGIC_TYPES /\ ~startswith_underscore(k)
\* the names pathomx_notebook_start binds: the keys of the snapshot, its own
\* private name, and the input ports
SnapshotKeys == DOMAIN pickle_load(pickle_in.items)
BoundByStart ==
    SnapshotKeys \cup {PrivateName("pathomx_tempdir")}
        \cup {Name(p) : p \in DOMAIN pickle_in.io.input}

\* C14 as stated: anti-contamination with 'styles' exempt. The wipe at the
\* start of a run removes every binding of a portable type under a public
\* name, except the binding named 'styles', which it leaves in place.
C14_WipeSparesStyles ==
    [][StartStep =>
          \A k \in DOMAIN kernel_vars : Stale(kernel_vars, k) =>
              IF k = Name("styles")
              THEN k \in DOMAIN wipe(kernel_vars)
                   /\ (kernel_exc' # "none" => k \in DOMAIN kernel_vars')
              ELSE k \notin DOMAIN wipe(kernel_vars)]_vars

\* C14 amended: the wipe removes every binding of a portable type under a
\* public name, 'styles' included. After the call such a name is bound only if
\* the snapshot or an input port bound it again (never when the load failed),
\* and every other binding is left as it was.
C14_WipeRemovesEveryPortable ==
    [][StartStep =>
          \A k \in DOMAIN kernel_vars :
              IF Stale(kernel_vars, k)
              THEN /\ k \notin DOMAIN wipe(kernel_vars)
                   /\ \/ k \notin DOMAIN kernel_vars'
                      \/ kernel_exc' = "none" /\ k \in BoundByStart
              ELSE /\ k \in DOMAIN kernel_vars'
                   /\ (kernel_exc' = "none" /\ k \in BoundByStart)
                         \/ kernel_vars'[k] = kernel_vars[k]]_vars

\* C14 witness: a run that exported 'styles' was followed by a start whose
\* load failed; 'styles' is gone from the namespace, while a table under a
\* private name and a public value that is not portable are still there
C14_Witness ==
    /\ kernel_exc \in {"IOError", "UnpicklingError"} /\ kernel_pc.pc = "idle"
    /\ pickle_out.state = "ok"
    /\ Name("styles") \in DOMAIN pickle_load(pickle_out.items)
    /\ Name("styles") \notin DOMAIN kernel_vars
    /\ PrivateName("tmp") \in DOMAIN kernel_vars
    /\ kernel_vars[PrivateName("tmp")].type = "DataFrame"
    /\ Name("rcParams") \in DOMAIN kernel_vars

\* C15: a missing or unreadable input snapshot degrades to an empty input
\* mapping. pathomx_notebook_start raises nothing when the file is missing or
\* does not load: the run continues with no input name excluded.
C15_UnreadableSnapshotDegrades ==
    [][(StartStep /\ pickle_in.state # "ok") =>
          /\ kernel_exc' = "none"
          /\ kernel_pc'.pc = "started"
          /\ exclude_input_vars' = {}]_vars

\* C16: the output snapshot is replaced atomically. Once the file at
\* _pathomx_pickle_out holds a complete stream, it holds a complete stream
\* after every step, also when the process dies during pathomx_notebook_stop.
C16_OutputSnapshotStaysReadable ==
    [][pickle_out.state = "ok" => pickle_out'.state = "ok"]_vars

\* C17: input-port aliasing. After pathomx_notebook_start has returned, every
\* input port of the job's _io is bound: to the value under the upstream key
\* when the port is bound to an upstream and that key is in the namespace, to
\* None otherwise; and the key generate() gave the port is the private name
\* made of the upstream's output name and tool id, or None for an unbound port.
C17_InputPortAliasing ==
    [][(StartStep /\ kernel_exc' = "none") =>
          LET t == kernel_pc.tool
          IN /\ DOMAIN kernel_io'.input = DOMAIN data_i[t]
             /\ \A p \in DOMAIN data_i[t] :
                   LET key == kernel_io'.input[p]
                   IN /\ key = KeyOf(data_i[t][p])
                      /\ Name(p) \in DOMAIN kernel_vars'
                      /\ kernel_vars'[Name(p)] =
                            IF key # None /\ KeyName(key) \in DOMAIN kernel_vars'
                            THEN kernel_vars'[KeyName(key)] ELSE PyNone]_vars

\* C17 witness: the run has started with one input bound to the table the
\* upstream tool left under its key, and the unbound input bound to None
C17_Witness ==
    /\ kernel_pc.pc = "started"
    /\ \E p, q \in DOMAIN kernel_io.input :
          /\ kernel_io.input[p] # None /\ kernel_io.input[q] = None
          /\ KeyName(kernel_io.input[p]) \in DOMAIN kernel_vars
          /\ kernel_vars[Name(p)] = kernel_vars[KeyName(kernel_io.input[p])]
          /\ kernel_vars[Name(p)].type = "DataFrame"
          /\ kernel_vars[Name(q)] = PyNone

\* C17 witness: the run has started with an input bound to an upstream whose
\* key is not in the namespace, and the port is bound to None
C17_WitnessKeyAbsent ==
    /\ kernel_pc.pc = "started"
    /\ \E p \in DOMAIN kernel_io.input :
          /\ kernel_io.input[p] # None
          /\ KeyName(kernel_io.input[p]) \notin DOMAIN kernel_vars
          /\ kernel_vars[Name(p)] = PyNone

\* C18: the output mapping. When pathomx_notebook_stop returns, the mapping in
\* the file has exactly the names of the namespace that are public, are not a
\* key of the input snapshot other than 'styles', and are bound to a value of a
\* portable type, each with the value the namespace holds; nothing else is in
\* it and no name is bound to None.
C18_OutputMappingExact ==
    [][(StopStep /\ kernel_exc' = "none") =>
          LET ovars == pickle_load(pickle_out'.items)
              expected == {k \in DOMAIN kernel_vars :
                              /\ ~startswith_underscore(k)
                              /\ k \notin SnapshotKeys \ {Name("styles")}
                              /\ kernel_vars[k].type \in MAGIC_TYPES}
          IN /\ pickle_out'.state = "ok"
             /\ DOMAIN ovars = expected
             /\ \A k \in expected : ovars[k] = kernel_vars'[k] /\ ovars[k] # PyNone]_vars

\* C18 witness: a stop has just written a mapping that holds 'styles' and the
\* output port, from a namespace that also holds a table under a private name,
\* a table under the name of a snapshot key, and values that are not portable
C18_Witness ==
    /\ kernel_pc.pc = "idle" /\ kernel_exc = "none" /\ pickle_out.state = "ok"
    /\ {Name("styles"), Name("scores")} \subseteq DOMAIN pickle_load(pickle_out.items)
    /\ {PrivateName("tmp"), Name("config"), Name("rcParams")} \subseteq DOMAIN kernel_vars
    /\ kernel_vars[PrivateName("tmp")].type = "DataFrame"
    /\ kernel_vars[Name("config")].type = "DataFrame"
    /\ Name("config") \notin DOMAIN pickle_load(pickle_out.items)

\* every render cache of a figure is empty
Stripped(v) ==
    /\ v.cachedRenderer = "None"
    /\ \A a \in DOMAIN v.axstack :
          /\ v.axstack[a].cachedRenderer = "None"
          /\ \A n \in DOMAIN v.axstack[a].images : v.axstack[a].images[n] = "None"

\* C19: figures are stripped before encoding. Every figure among the items
\* that reach the output file has no cached renderer, and none of its axes has
\* a cached renderer or an image cache.
C19_FiguresStripped ==
    \A n \in DOMAIN pickle_out.items :
        pickle_out.items[n][2].type = "Figure" => Stripped(pickle_out.items[n][2])

\* C19 witness: the output file holds a figure that has axes with images
C19_Witness ==
    /\ pickle_out.state = "ok"
    /\ \E n \in DOMAIN pickle_out.items :
          LET v == pickle_out.items[n][2]
          IN v.type = "Figure" /\ v.axstack # <<>> /\ v.axstack[1].images # <<>>

\* a mapping without the names that fail test(k)
Restrict(m, test(_)) == [k \in {n \in DOMAIN m : test(n)} |-> m[k]]
\* a value without its transient render caches
WithoutCaches(v) == figure_prepickle_handler_or_same(v)
\* m and d have the same keys and, render caches aside, equal values
SameUpToCaches(d, m) ==
    DOMAIN d = DOMAIN m /\ \A k \in DOMAIN m : d[k] = WithoutCaches(m[k])

C32_InputNotReportedAsOutput ==
    [][(StopStep /\ kernel_exc' = "none") =>
          \A p \in DOMAIN kernel_io.input :
              Name(p) \notin DOMAIN pickle_load(pickle_out'.items)]_vars

====
